---------------------------- MODULE Spec2Model ----------------------------
(***************************************************************************)
(* Debt payoff planner: the console engine of debt_calculator.py.          *)
(*                                                                         *)
(* Money is modelled in fixed point: a balance, a budget, a payment and    *)
(* epsilon are whole numbers of one smallest unit, and a product or        *)
(* quotient of the code is rounded down to a whole unit where the code     *)
(* rounds to the nearest float.  An APR is a whole number of percent, so   *)
(* the monthly interest on a balance b is (b * apr) \div 1200.  The APRs   *)
(* drawn here are multiples of 1200, so interest is exact and only a       *)
(* proportional share is ever rounded.                                     *)
(*                                                                         *)
(* The state is a caller holding a list of cards, and one call in          *)
(* progress: apply_one_time_payment, apply_payments, or one of the two     *)
(* simulations, which run month by month on their working list.            *)
(***************************************************************************)
EXTENDS Integers, Sequences, FiniteSets, TLC

(* ------------------------------ bounds -------------------------------- *)
MaxBalance == 2
MaxBudget == 5
MaxMonths == 4
MaxPayment == 2

AprValues == {0, 1200, 4800}
EpsilonValues == {0, 1}
NameLists == {<<>>, <<"A">>, <<"A", "B">>, <<"A", "A">>}
PayNames == {"A", "B", "Z"}
Strategies == {"avalanche", "snowball", "proportional", "other"}

VARIABLES cards, pc, op, work, args, months, total_interest, month_interest,
          history, result, error, entry, pending

vars == <<cards, pc, op, work, args, months, total_interest, month_interest,
          history, result, error, entry, pending>>

(* ------------------------- sequence helpers --------------------------- *)
RECURSIVE SumSeq(_)
SumSeq(s) == IF s = <<>> THEN 0 ELSE Head(s) + SumSeq(Tail(s))

Min(a, b) == IF a <= b THEN a ELSE b
Max(a, b) == IF a >= b THEN a ELSE b

Names(cs) == {cs[i].name : i \in DOMAIN cs}

(* ------------------------------ the code ------------------------------ *)
Card(n, b, a) == [name |-> n, balance |-> b, apr |-> a]

\* balance * monthly_rate(apr), with monthly_rate(apr) = (apr / 100) / 12
Interest(balance, apr) == (balance * apr) \div 1200

total_balance(cs) == SumSeq([i \in DOMAIN cs |-> cs[i].balance])

\* index of the first card with the given name, 0 when there is none
FirstMatch(cs, name) ==
    IF \E i \in DOMAIN cs : cs[i].name = name
    THEN CHOOSE i \in DOMAIN cs :
            /\ cs[i].name = name
            /\ \A j \in DOMAIN cs : cs[j].name = name => i <= j
    ELSE 0

\* the subtraction without the clamp at zero
apply_one_time_payment_NoClamp(cs, card_name, amount) ==
    IF amount < 0
    THEN [cards |-> cs, error |-> "ValueError"]
    ELSE LET k == FirstMatch(cs, card_name) IN
         IF k = 0
         THEN [cards |-> cs, error |-> "KeyError"]
         ELSE [cards |-> [cs EXCEPT ![k].balance = cs[k].balance - amount],
               error |-> "none"]

\* the balance written before the amount is validated
apply_one_time_payment_ValidateLate(cs, card_name, amount) ==
    LET k == FirstMatch(cs, card_name) IN
    IF k = 0
    THEN [cards |-> cs, error |-> "KeyError"]
    ELSE [cards |-> [cs EXCEPT ![k].balance = Max(0, cs[k].balance - amount)],
          error |-> IF amount < 0 THEN "ValueError" ELSE "none"]

\* apply_one_time_payment: the list after the call and the error it raised
apply_one_time_payment(cs, card_name, amount) ==
    IF amount < 0
    THEN [cards |-> cs, error |-> "ValueError"]
    ELSE LET k == FirstMatch(cs, card_name) IN
         IF k = 0
         THEN [cards |-> cs, error |-> "KeyError"]
         ELSE [cards |-> [cs EXCEPT ![k].balance = Max(0, cs[k].balance - amount)],
               error |-> "none"]

\* the working list is the caller's list itself
OwnsCopy_Aliased == FALSE

\* cards = copy.deepcopy(cards): the simulation owns its working list
OwnsCopy == TRUE

\* what the caller's list is once the simulation has written its working list
CallerSees(newWork) == IF OwnsCopy THEN cards ELSE newWork

\* the interest is counted but not added to the balance
Accrued_NotAdded(cs, epsilon) == cs

\* the accrual loop: every card above epsilon gains its month's interest
Accrued(cs, epsilon) ==
    [i \in DOMAIN cs |->
        IF cs[i].balance > epsilon
        THEN [cs[i] EXCEPT !.balance = cs[i].balance + Interest(cs[i].balance, cs[i].apr)]
        ELSE cs[i]]

MonthInterest(cs, epsilon) ==
    SumSeq([i \in DOMAIN cs |->
        IF cs[i].balance > epsilon THEN Interest(cs[i].balance, cs[i].apr) ELSE 0])

\* the cap never tested
CapExceeded_Never(m, max_months) == FALSE

\* the cap tested with >= for >
CapExceeded_OffByOne(m, max_months) == m >= max_months

\* months > max_months, tested after months += 1
CapExceeded(m, max_months) == m > max_months

\* the indices of the cards above epsilon, in list order
RECURSIVE ActiveFrom(_, _, _)
ActiveFrom(cs, epsilon, i) ==
    IF i > Len(cs) THEN <<>>
    ELSE (IF cs[i].balance > epsilon THEN <<i>> ELSE <<>>) \o ActiveFrom(cs, epsilon, i + 1)

Active(cs, epsilon) == ActiveFrom(cs, epsilon, 1)

\* the avalanche key with apr for -apr: the lowest rate first
KeyLess_AscendingApr(cs, strategy, i, j) ==
    IF strategy = "avalanche"
    THEN \/ cs[i].apr < cs[j].apr
         \/ cs[i].apr = cs[j].apr /\ cs[i].balance < cs[j].balance
    ELSE \/ cs[i].balance < cs[j].balance
         \/ cs[i].balance = cs[j].balance /\ cs[i].apr > cs[j].apr

\* the sort keys: avalanche (-apr, balance), snowball (balance, -apr)
KeyLess(cs, strategy, i, j) ==
    IF strategy = "avalanche"
    THEN \/ cs[i].apr > cs[j].apr
         \/ cs[i].apr = cs[j].apr /\ cs[i].balance < cs[j].balance
    ELSE \/ cs[i].balance < cs[j].balance
         \/ cs[i].balance = cs[j].balance /\ cs[i].apr > cs[j].apr

\* list.sort is stable: an element goes after every element not greater than it
RECURSIVE InsertSorted(_, _, _, _)
InsertSorted(cs, strategy, sorted, i) ==
    IF sorted = <<>> THEN <<i>>
    ELSE IF KeyLess(cs, strategy, i, Head(sorted))
         THEN <<i>> \o sorted
         ELSE <<Head(sorted)>> \o InsertSorted(cs, strategy, Tail(sorted), i)

RECURSIVE SortFrom(_, _, _, _)
SortFrom(cs, strategy, order, sorted) ==
    IF order = <<>> THEN sorted
    ELSE SortFrom(cs, strategy, Tail(order), InsertSorted(cs, strategy, sorted, Head(order)))

PayoffOrder(cs, strategy, epsilon) == SortFrom(cs, strategy, Active(cs, epsilon), <<>>)

\* the walk stops after the first card of the order
WalkPay_FirstOnly(cs, order, remaining, epsilon) ==
    IF order = <<>> \/ remaining <= epsilon
    THEN [cards |-> cs, remaining |-> remaining]
    ELSE LET c == Head(order)
             pay == Min(cs[c].balance, remaining)
         IN [cards |-> [cs EXCEPT ![c].balance = cs[c].balance - pay],
             remaining |-> 0]

\* one pass over the order: pay min(balance, remaining), stop at remaining <= epsilon
RECURSIVE WalkPay(_, _, _, _)
WalkPay(cs, order, remaining, epsilon) ==
    IF order = <<>> \/ remaining <= epsilon
    THEN [cards |-> cs, remaining |-> remaining]
    ELSE LET c == Head(order)
             pay == Min(cs[c].balance, remaining)
         IN WalkPay([cs EXCEPT ![c].balance = cs[c].balance - pay],
                    Tail(order), remaining - pay, epsilon)

\* the second pass over every card with a balance, those at or below epsilon too
SecondPass_AnyBalance(first, strategy, epsilon) ==
    IF first.remaining > epsilon
    THEN WalkPay(first.cards, PayoffOrder(first.cards, strategy, 0),
                 first.remaining, epsilon)
    ELSE first

\* the second pass, over the cards still above epsilon, when budget is left
SecondPass(first, strategy, epsilon) ==
    IF first.remaining > epsilon
    THEN WalkPay(first.cards, PayoffOrder(first.cards, strategy, epsilon),
                 first.remaining, epsilon)
    ELSE first

\* the avalanche and snowball branch, both passes
AllocateOrdered(cs, budget, strategy, epsilon) ==
    SecondPass(WalkPay(cs, PayoffOrder(cs, strategy, epsilon), budget, epsilon),
               strategy, epsilon).cards

\* the proportional branch: share = remaining * (balance / total_bal)
Share(remaining, balance, total_bal) == (remaining * balance) \div total_bal

\* total_bal summed over every card, those at or below epsilon too
ActiveTotal_AllCards(cs, epsilon) == total_balance(cs)

ActiveTotal(cs, epsilon) ==
    SumSeq([i \in DOMAIN cs |-> IF cs[i].balance > epsilon THEN cs[i].balance ELSE 0])

AllocateProportional(cs, budget, epsilon) ==
    LET total_bal == ActiveTotal(cs, epsilon) IN
    [i \in DOMAIN cs |->
        IF cs[i].balance > epsilon
        THEN [cs[i] EXCEPT !.balance =
                cs[i].balance - Min(cs[i].balance, Share(budget, cs[i].balance, total_bal))]
        ELSE cs[i]]

\* the history record of one month
Snapshot(cs, m, interest, to_date) ==
    [month |-> m,
     interest |-> interest,
     total_interest_to_date |-> to_date,
     balances |-> [n \in Names(cs) |->
        LET k == CHOOSE i \in DOMAIN cs :
                    cs[i].name = n /\ \A j \in DOMAIN cs : cs[j].name = n => j <= i
        IN Max(0, cs[k].balance)],
     total_balance |-> total_balance(cs)]


\* name_to_card = {c.name: c for c in cards}: the last card of a name wins
LastMatch(cs, name) ==
    IF \E i \in DOMAIN cs : cs[i].name = name
    THEN CHOOSE i \in DOMAIN cs :
            /\ cs[i].name = name
            /\ \A j \in DOMAIN cs : cs[j].name = name => j <= i
    ELSE 0

\* a name that is no card is skipped without an error
RECURSIVE ManualApply_SkipUnknown(_, _, _)
ManualApply_SkipUnknown(cs, payments, epsilon) ==
    IF payments = <<>> THEN [cards |-> cs, error |-> "none"]
    ELSE LET p == Head(payments)
             k == LastMatch(cs, p.name)
         IN IF k # 0 /\ cs[k].balance > epsilon /\ p.amount > 0
            THEN ManualApply_SkipUnknown(
                    [cs EXCEPT ![k].balance = cs[k].balance - Min(cs[k].balance, p.amount)],
                    Tail(payments), epsilon)
            ELSE ManualApply_SkipUnknown(cs, Tail(payments), epsilon)

\* the payment loop of one month of simulate_payoff_manual_payments
RECURSIVE ManualApply(_, _, _)
ManualApply(cs, payments, epsilon) ==
    IF payments = <<>> THEN [cards |-> cs, error |-> "none"]
    ELSE LET p == Head(payments)
             k == LastMatch(cs, p.name)
         IN IF k = 0
            THEN [cards |-> cs, error |-> "KeyError"]
            ELSE IF cs[k].balance > epsilon /\ p.amount > 0
                 THEN ManualApply(
                        [cs EXCEPT ![k].balance = cs[k].balance - Min(cs[k].balance, p.amount)],
                        Tail(payments), epsilon)
                 ELSE ManualApply(cs, Tail(payments), epsilon)

\* for k, v in monthly_payments.items(): if v < 0: raise ValueError
HasNegativePayment(payments) == \E i \in DOMAIN payments : payments[i].amount < 0

(* ------------------------------ inputs -------------------------------- *)
CardLists ==
    UNION {{[i \in DOMAIN names |-> Card(names[i], b[i], a[i])] :
                b \in [DOMAIN names -> 0..MaxBalance], a \in [DOMAIN names -> AprValues]} :
           names \in NameLists}

Payment(n, v) == [name |-> n, amount |-> v]

Amounts == (-1)..MaxPayment

\* a dict of payments, in insertion order: no name twice
PaymentMaps ==
    {<<>>}
    \cup {<<Payment(n, v)>> : n \in PayNames, v \in Amounts}
    \cup {m \in {<<Payment(n1, v1), Payment(n2, v2)>> :
                    n1 \in PayNames, n2 \in PayNames, v1 \in Amounts, v2 \in Amounts} :
            m[1].name # m[2].name}

NoArgs == [name |-> "", amount |-> 0, monthly_budget |-> 0, strategy |-> "",
           max_months |-> 0, epsilon |-> 0, payments |-> <<>>]

NoResult == [returned |-> FALSE, paid_off |-> FALSE, months |-> 0, total_interest |-> 0,
             reason |-> FALSE, history |-> <<>>]

Result(paid, m, interest, h) ==
    [returned |-> TRUE, paid_off |-> paid, months |-> m, total_interest |-> interest,
     reason |-> ~paid, history |-> h]

(* ---------------------------- the machine ----------------------------- *)
Init ==
    /\ cards \in CardLists
    /\ pc = "idle"
    /\ op = "none"
    /\ work = <<>>
    /\ args = NoArgs
    /\ months = 0
    /\ total_interest = 0
    /\ month_interest = 0
    /\ history = <<>>
    /\ result = NoResult
    /\ error = "none"
    /\ entry = <<>>
    /\ pending = <<>>

\* a call of apply_one_time_payment by the caller
OneTimePayment(name, amount) ==
    /\ pc = "idle"
    /\ LET out == apply_one_time_payment(cards, name, amount) IN
        /\ cards' = out.cards
        /\ error' = out.error
        /\ pc' = IF out.error = "none" THEN "returned" ELSE "raised"
    /\ op' = "pay"
    /\ args' = [NoArgs EXCEPT !.name = name, !.amount = amount]
    /\ entry' = cards
    /\ UNCHANGED <<work, months, total_interest, month_interest, history, result, pending>>

\* apply_payments: the batch is entered
CallBatch(payments) ==
    /\ pc = "idle"
    /\ pc' = "batch"
    /\ op' = "batch"
    /\ args' = [NoArgs EXCEPT !.payments = payments]
    /\ pending' = payments
    /\ entry' = cards
    /\ UNCHANGED <<cards, work, months, total_interest, month_interest, history, result, error>>

\* apply_payments: one iteration of the loop over payments.items()
BatchStep ==
    /\ pc = "batch"
    /\ pending # <<>>
    /\ LET out == apply_one_time_payment(cards, Head(pending).name, Head(pending).amount) IN
        /\ cards' = out.cards
        /\ error' = out.error
        /\ pc' = IF out.error = "none" THEN "batch" ELSE "raised"
    /\ pending' = Tail(pending)
    /\ UNCHANGED <<op, work, args, months, total_interest, month_interest, history, result, entry>>

\* apply_payments: the loop is over
BatchDone ==
    /\ pc = "batch"
    /\ pending = <<>>
    /\ pc' = "returned"
    /\ UNCHANGED <<cards, op, work, args, months, total_interest, month_interest, history,
                   result, error, entry, pending>>

\* simulate_payoff_total_budget: monthly_budget <= 0
CallBudgetRejected(budget, strategy, max_months, epsilon) ==
    /\ pc = "idle"
    /\ budget <= 0
    /\ pc' = "raised"
    /\ error' = "ValueError"
    /\ op' = "budget"
    /\ args' = [NoArgs EXCEPT !.monthly_budget = budget, !.strategy = strategy,
                              !.max_months = max_months, !.epsilon = epsilon]
    /\ entry' = cards
    /\ UNCHANGED <<cards, work, months, total_interest, month_interest, history, result, pending>>

\* simulate_payoff_total_budget: the set-up before the loop
CallBudget(budget, strategy, max_months, epsilon) ==
    /\ pc = "idle"
    /\ budget > 0
    /\ pc' = "loop"
    /\ op' = "budget"
    /\ args' = [NoArgs EXCEPT !.monthly_budget = budget, !.strategy = strategy,
                              !.max_months = max_months, !.epsilon = epsilon]
    /\ work' = cards
    /\ months' = 0
    /\ total_interest' = 0
    /\ history' = <<>>
    /\ entry' = cards
    /\ UNCHANGED <<cards, month_interest, result, error, pending>>

\* the while test fails: the return after the loop
ReturnPaidOff ==
    /\ pc = "loop"
    /\ op = "budget"
    /\ ~(total_balance(work) > args.epsilon)
    /\ pc' = "returned"
    /\ result' = Result(TRUE, months, total_interest, history)
    /\ UNCHANGED <<cards, op, work, args, months, total_interest, month_interest, history,
                   error, entry, pending>>

\* months += 1 exceeds the cap: the return inside the loop
ReturnCapHit ==
    /\ pc = "loop"
    /\ op = "budget"
    /\ total_balance(work) > args.epsilon
    /\ CapExceeded(months + 1, args.max_months)
    /\ months' = months + 1
    /\ pc' = "returned"
    /\ result' = Result(FALSE, months + 1, total_interest, history)
    /\ UNCHANGED <<cards, op, work, args, total_interest, month_interest, history,
                   error, entry, pending>>

\* step 1 of a month: interest accrues
Accrue ==
    /\ pc = "loop"
    /\ op = "budget"
    /\ total_balance(work) > args.epsilon
    /\ ~CapExceeded(months + 1, args.max_months)
    /\ months' = months + 1
    /\ work' = Accrued(work, args.epsilon)
    /\ month_interest' = MonthInterest(work, args.epsilon)
    /\ total_interest' = total_interest + MonthInterest(work, args.epsilon)
    /\ cards' = CallerSees(work')
    /\ pc' = "alloc"
    /\ UNCHANGED <<op, args, history, result, error, entry, pending>>

\* step 2 of a month: the strategy is none of the three
RaiseUnknownStrategy ==
    /\ pc = "alloc"
    /\ op = "budget"
    /\ args.strategy \notin {"avalanche", "snowball", "proportional"}
    /\ pc' = "raised"
    /\ error' = "ValueError"
    /\ UNCHANGED <<cards, op, work, args, months, total_interest, month_interest, history,
                   result, entry, pending>>

\* step 2 of a month, proportional: total_bal <= epsilon breaks out of the loop
ProportionalBreak ==
    /\ pc = "alloc"
    /\ op = "budget"
    /\ args.strategy = "proportional"
    /\ ActiveTotal(work, args.epsilon) <= args.epsilon
    /\ pc' = "returned"
    /\ result' = Result(TRUE, months, total_interest, history)
    /\ UNCHANGED <<cards, op, work, args, months, total_interest, month_interest, history,
                   error, entry, pending>>

\* steps 2 and 3 of a month, proportional
PayProportional ==
    /\ pc = "alloc"
    /\ op = "budget"
    /\ args.strategy = "proportional"
    /\ ActiveTotal(work, args.epsilon) > args.epsilon
    /\ work' = AllocateProportional(work, args.monthly_budget, args.epsilon)
    /\ history' = Append(history, Snapshot(work', months, month_interest, total_interest))
    /\ cards' = CallerSees(work')
    /\ pc' = "loop"
    /\ UNCHANGED <<op, args, months, total_interest, month_interest, result, error, entry, pending>>

\* steps 2 and 3 of a month, avalanche and snowball
PayOrdered ==
    /\ pc = "alloc"
    /\ op = "budget"
    /\ args.strategy \in {"avalanche", "snowball"}
    /\ work' = AllocateOrdered(work, args.monthly_budget, args.strategy, args.epsilon)
    /\ history' = Append(history, Snapshot(work', months, month_interest, total_interest))
    /\ cards' = CallerSees(work')
    /\ pc' = "loop"
    /\ UNCHANGED <<op, args, months, total_interest, month_interest, result, error, entry, pending>>

\* simulate_payoff_manual_payments: a payment of the map is negative
CallManualRejected(payments, max_months, epsilon) ==
    /\ pc = "idle"
    /\ HasNegativePayment(payments)
    /\ pc' = "raised"
    /\ error' = "ValueError"
    /\ op' = "manual"
    /\ args' = [NoArgs EXCEPT !.payments = payments, !.max_months = max_months,
                              !.epsilon = epsilon]
    /\ work' = cards
    /\ entry' = cards
    /\ UNCHANGED <<cards, months, total_interest, month_interest, history, result, pending>>

\* simulate_payoff_manual_payments: the set-up before the loop
CallManual(payments, max_months, epsilon) ==
    /\ pc = "idle"
    /\ ~HasNegativePayment(payments)
    /\ pc' = "loop"
    /\ op' = "manual"
    /\ args' = [NoArgs EXCEPT !.payments = payments, !.max_months = max_months,
                              !.epsilon = epsilon]
    /\ work' = cards
    /\ months' = 0
    /\ total_interest' = 0
    /\ history' = <<>>
    /\ entry' = cards
    /\ UNCHANGED <<cards, month_interest, result, error, pending>>

\* manual: the while test fails, the return after the loop
ManualReturnPaidOff ==
    /\ pc = "loop"
    /\ op = "manual"
    /\ ~(total_balance(work) > args.epsilon)
    /\ pc' = "returned"
    /\ result' = Result(TRUE, months, total_interest, history)
    /\ UNCHANGED <<cards, op, work, args, months, total_interest, month_interest, history,
                   error, entry, pending>>

\* manual: months += 1 exceeds the cap, the return inside the loop
ManualReturnCapHit ==
    /\ pc = "loop"
    /\ op = "manual"
    /\ total_balance(work) > args.epsilon
    /\ CapExceeded(months + 1, args.max_months)
    /\ months' = months + 1
    /\ pc' = "returned"
    /\ result' = Result(FALSE, months + 1, total_interest, history)
    /\ UNCHANGED <<cards, op, work, args, total_interest, month_interest, history,
                   error, entry, pending>>

\* manual: interest accrues
ManualAccrue ==
    /\ pc = "loop"
    /\ op = "manual"
    /\ total_balance(work) > args.epsilon
    /\ ~CapExceeded(months + 1, args.max_months)
    /\ months' = months + 1
    /\ work' = Accrued(work, args.epsilon)
    /\ month_interest' = MonthInterest(work, args.epsilon)
    /\ total_interest' = total_interest + MonthInterest(work, args.epsilon)
    /\ cards' = CallerSees(work')
    /\ pc' = "alloc"
    /\ UNCHANGED <<op, args, history, result, error, entry, pending>>

\* manual: the payment loop meets a name that is no card
ManualRaiseNotFound ==
    /\ pc = "alloc"
    /\ op = "manual"
    /\ ManualApply(work, args.payments, args.epsilon).error = "KeyError"
    /\ work' = ManualApply(work, args.payments, args.epsilon).cards
    /\ cards' = CallerSees(work')
    /\ pc' = "raised"
    /\ error' = "KeyError"
    /\ UNCHANGED <<op, args, months, total_interest, month_interest, history, result,
                   entry, pending>>

\* manual: the payments of the month and its history record
ManualPay ==
    /\ pc = "alloc"
    /\ op = "manual"
    /\ ManualApply(work, args.payments, args.epsilon).error = "none"
    /\ work' = ManualApply(work, args.payments, args.epsilon).cards
    /\ history' = Append(history, Snapshot(work', months, month_interest, total_interest))
    /\ cards' = CallerSees(work')
    /\ pc' = "loop"
    /\ UNCHANGED <<op, args, months, total_interest, month_interest, result, error, entry, pending>>

\* the call is over: the caller goes on with its list
Finish ==
    /\ pc \in {"returned", "raised"}
    /\ pc' = "idle"
    /\ op' = "none"
    /\ work' = <<>>
    /\ args' = NoArgs
    /\ months' = 0
    /\ total_interest' = 0
    /\ month_interest' = 0
    /\ history' = <<>>
    /\ result' = NoResult
    /\ error' = "none"
    /\ entry' = <<>>
    /\ pending' = <<>>
    /\ UNCHANGED cards

Next ==
    \/ pc = "idle" /\ \E n \in PayNames, v \in Amounts : OneTimePayment(n, v)
    \/ pc = "idle" /\ \E p \in PaymentMaps : CallBatch(p)
    \/ BatchStep
    \/ BatchDone
    \/ pc = "idle" /\ \E b \in (-1)..MaxBudget, s \in Strategies, m \in 0..MaxMonths,
                         e \in EpsilonValues : CallBudgetRejected(b, s, m, e)
    \/ pc = "idle" /\ \E b \in (-1)..MaxBudget, s \in Strategies, m \in 0..MaxMonths,
                         e \in EpsilonValues : CallBudget(b, s, m, e)
    \/ ReturnPaidOff
    \/ ReturnCapHit
    \/ Accrue
    \/ RaiseUnknownStrategy
    \/ ProportionalBreak
    \/ PayProportional
    \/ PayOrdered
    \/ pc = "idle" /\ \E p \in PaymentMaps, m \in 0..MaxMonths, e \in EpsilonValues :
                         CallManualRejected(p, m, e)
    \/ pc = "idle" /\ \E p \in PaymentMaps, m \in 0..MaxMonths, e \in EpsilonValues :
                         CallManual(p, m, e)
    \/ ManualReturnPaidOff
    \/ ManualReturnCapHit
    \/ ManualAccrue
    \/ ManualRaiseNotFound
    \/ ManualPay
    \/ Finish

Spec == Init /\ [][Next]_vars


(* ------------------------------ claims -------------------------------- *)
InSimulation == op \in {"budget", "manual"}

Over == pc \in {"returned", "raised"}

ValidStrategy == args.strategy \in {"avalanche", "snowball", "proportional"}

NonNegative(cs) == \A i \in DOMAIN cs : cs[i].balance >= 0

\* C1: during and after a call of either simulation, whether it returns
\* paid_off=true, returns paid_off=false or raises, the caller's list has the
\* names, balances and APRs it had when the call was made.
C1_CallerListUnchanged == InSimulation => cards = entry

\* a simulation returned after changing its working list
C1_Witness ==
    /\ InSimulation
    /\ pc = "returned"
    /\ work # entry
    /\ cards = entry

\* a simulation raised after changing its working list
C1_WitnessRaised ==
    /\ InSimulation
    /\ pc = "raised"
    /\ work # entry

\* C2: a call of simulate_payoff_total_budget with monthly_budget <= 0, or with
\* a strategy that is none of the three, never returns a result: it ends in
\* an invalid-argument error.
C2_InvalidArgumentRejected ==
    (op = "budget" /\ (args.monthly_budget <= 0 \/ ~ValidStrategy))
        => /\ pc # "returned"
           /\ ~result.returned
           /\ (pc = "raised" => error = "ValueError")

\* the part of C2 that the code keeps: a non-positive budget is rejected at entry
C2_BudgetRejected ==
    (op = "budget" /\ args.monthly_budget <= 0)
        => pc = "raised" /\ error = "ValueError" /\ ~result.returned

\* the balances met while the ordered walk pays the first k cards of its order
WalkPrefixesNonNegative ==
    (pc = "alloc" /\ op = "budget" /\ args.strategy \in {"avalanche", "snowball"}) =>
        LET order == PayoffOrder(work, args.strategy, args.epsilon) IN
        \A k \in 0..Len(order) :
            LET first == WalkPay(work, SubSeq(order, 1, k), args.monthly_budget, args.epsilon)
            IN /\ NonNegative(first.cards)
               /\ first.remaining >= 0
               /\ NonNegative(SecondPass(first, args.strategy, args.epsilon).cards)

\* the balances met while the manual payment loop applies its first k payments
ManualPrefixesNonNegative ==
    (pc = "alloc" /\ op = "manual") =>
        \A k \in 0..Len(args.payments) :
            NonNegative(ManualApply(work, SubSeq(args.payments, 1, k), args.epsilon).cards)

HistoryNonNegative ==
    \A k \in DOMAIN history :
        /\ history[k].total_balance >= 0
        /\ \A n \in DOMAIN history[k].balances : history[k].balances[n] >= 0

\* a one-time payment that returned paid the first card of the name, clamped at
\* zero, and changed no other card
OneTimePaymentClamps ==
    (op = "pay" /\ pc = "returned") =>
        LET k == FirstMatch(entry, args.name) IN
        /\ k # 0
        /\ \A i \in DOMAIN entry :
            cards[i] = IF i = k
                       THEN [entry[i] EXCEPT !.balance =
                                IF args.amount > entry[i].balance THEN 0
                                ELSE entry[i].balance - args.amount]
                       ELSE entry[i]

\* C3: every balance is >= 0 at every point: in the caller's list after any
\* sequence of one-time payments (an overpayment leaves the first matching card
\* at 0 and changes no other card), in the working list after every accrual and
\* every single payment of both simulations, and in every history record.
C3_BalancesNonNegative ==
    /\ NonNegative(cards)
    /\ NonNegative(work)
    /\ HistoryNonNegative
    /\ WalkPrefixesNonNegative
    /\ ManualPrefixesNonNegative
    /\ OneTimePaymentClamps

\* a one-time payment larger than the positive balance of a card whose name
\* another card shares
C3_Witness ==
    /\ op = "pay"
    /\ pc = "returned"
    /\ Len(entry) = 2
    /\ entry[1].name = entry[2].name
    /\ entry[1].balance > 0
    /\ entry[2].balance > 0
    /\ args.amount > entry[1].balance
    /\ cards[1].balance = 0
    /\ cards[2].balance = entry[2].balance

\* what a failing one-time payment must be: its error by its arguments
FailsAsSpecified(cs, name, amount, err) ==
    /\ amount < 0 => err = "ValueError"
    /\ (amount >= 0 /\ name \notin Names(cs)) => err = "KeyError"
    /\ (amount >= 0 /\ name \in Names(cs)) => err = "none"

\* the payments of a batch made so far, the one that raised not counted
BatchApplied ==
    LET done == Len(args.payments) - Len(pending) IN
    IF pc = "raised" THEN done - 1 ELSE done

\* the list a batch leaves when its first n payments were applied: a dict names
\* no card twice, so each card is paid at most once
AfterBatch(n) ==
    [i \in DOMAIN entry |->
        IF \E j \in 1..n : FirstMatch(entry, args.payments[j].name) = i
        THEN LET j == CHOOSE j \in 1..n : FirstMatch(entry, args.payments[j].name) = i
             IN [entry[i] EXCEPT !.balance = Max(0, entry[i].balance - args.payments[j].amount)]
        ELSE entry[i]]

\* C4: apply_one_time_payment raises invalid-argument for a negative amount and
\* not-found for a name no card has, and then every balance is what it was
\* before the call; in a batch of apply_payments the payments before the
\* failing one stay applied and the failing one changes nothing.
C4_FailedPaymentChangesNothing ==
    /\ (op = "pay" /\ Over) =>
        /\ FailsAsSpecified(entry, args.name, args.amount, error)
        /\ pc = "raised" <=> error # "none"
        /\ error # "none" => cards = entry
    /\ op = "batch" =>
        /\ cards = AfterBatch(BatchApplied)
        /\ \A j \in 1..BatchApplied :
            FailsAsSpecified(entry, args.payments[j].name, args.payments[j].amount, "none")
        /\ pc = "raised" =>
            /\ error # "none"
            /\ FailsAsSpecified(entry, args.payments[BatchApplied + 1].name,
                                args.payments[BatchApplied + 1].amount, error)
        /\ pc = "returned" => error = "none" /\ pending = <<>>

\* a batch whose second payment raised after its first one was applied
C4_Witness ==
    /\ op = "batch"
    /\ pc = "raised"
    /\ error = "KeyError"
    /\ cards # entry
    /\ BatchApplied = 1

\* a one-time payment of a negative amount to a card that exists
C4_WitnessNegative ==
    /\ op = "pay"
    /\ pc = "raised"
    /\ error = "ValueError"
    /\ args.name \in Names(entry)

\* the months a simulation completed: a month is complete when its history
\* record is written
CompletedMonths == Len(history)

\* C5: both simulations stop after at most max_months complete months. When
\* the total is still above epsilon after max_months months the call returns
\* paid_off=false with a reason and months = max_months + 1, and its
\* total_interest, history and working balances are those at the end of month
\* max_months: the cap-exceeding iteration accrues, pays and records nothing.
C5_StopsAtCap ==
    InSimulation =>
        /\ months <= args.max_months + 1
        /\ CompletedMonths <= args.max_months
        /\ pc = "loop" => months = CompletedMonths
        /\ pc = "alloc" => months = CompletedMonths + 1 /\ months <= args.max_months
        /\ (pc = "loop" /\ CompletedMonths = args.max_months
                /\ total_balance(work) > args.epsilon) =>
            /\ ENABLED (ReturnCapHit \/ ManualReturnCapHit)
            /\ ~ENABLED (Accrue \/ ManualAccrue)
        /\ (pc = "returned" /\ ~result.paid_off) =>
            /\ result.reason
            /\ result.months = args.max_months + 1
            /\ total_balance(work) > args.epsilon
            /\ result.history = history
            /\ Len(result.history) = args.max_months
            /\ result.total_interest =
                 IF args.max_months = 0 THEN 0
                 ELSE history[args.max_months].total_interest_to_date
            /\ total_balance(work) =
                 IF args.max_months = 0 THEN total_balance(entry)
                 ELSE history[args.max_months].total_balance

\* a run that hit a cap of at least two months with interest accrued
C5_Witness ==
    /\ InSimulation
    /\ pc = "returned"
    /\ ~result.paid_off
    /\ args.max_months >= 2
    /\ result.months = args.max_months + 1
    /\ result.total_interest > 0

\* C6: a simulation returns paid_off=true exactly when the total balance of
\* its working list is at or below epsilon as it returns, never while the
\* total is above epsilon, and months is then the number of completed months,
\* the length of history.
C6_PaidOffIffBelowEpsilon ==
    (InSimulation /\ pc = "returned") =>
        /\ result.paid_off <=> total_balance(work) <= args.epsilon
        /\ result.paid_off => result.months = Len(result.history)

UnknownName == \E i \in DOMAIN args.payments : args.payments[i].name \notin Names(entry)

\* C7 as claimed: a manual simulation whose payment map (no amount negative)
\* names a card that does not exist never returns a result, and the error it
\* raises is not-found.
C7_UnknownNameAlwaysRaises ==
    (op = "manual" /\ UnknownName /\ ~HasNegativePayment(args.payments)) =>
        /\ pc # "returned"
        /\ pc = "raised" => error = "KeyError"

\* C7, amended: with no negative amount in the map, an unknown name raises
\* not-found exactly when the first month's payment step is reached, that is
\* when the starting total is above epsilon and max_months >= 1; the error
\* comes in month 1 after that month's interest was accrued on the working
\* list, with no history record written; otherwise the call returns a result.
C7_UnknownNameRaisesInFirstMonth ==
    /\ (op = "manual" /\ UnknownName /\ ~HasNegativePayment(args.payments)) =>
        /\ Over => (pc = "raised" <=>
                        (total_balance(entry) > args.epsilon /\ args.max_months >= 1))
        /\ pc = "loop" => months = 0
        /\ pc = "raised" =>
            /\ error = "KeyError"
            /\ months = 1
            /\ history = <<>>
            /\ total_interest = MonthInterest(entry, args.epsilon)
            /\ \A i \in DOMAIN entry :
                (\A j \in DOMAIN args.payments : args.payments[j].name # entry[i].name)
                    => work[i] = Accrued(entry, args.epsilon)[i]
    /\ (op = "manual" /\ error = "KeyError") => UnknownName

\* the not-found error raised after interest was accrued
C7_Witness ==
    /\ op = "manual"
    /\ pc = "raised"
    /\ error = "KeyError"
    /\ total_interest > 0
    /\ work # entry

ZeroPayments ==
    /\ op = "manual"
    /\ entry # <<>>
    /\ ~UnknownName
    /\ \A i \in DOMAIN entry : \E j \in DOMAIN args.payments :
            args.payments[j].name = entry[i].name
    /\ \A i \in DOMAIN args.payments : args.payments[i].amount = 0
    /\ \A i \in DOMAIN entry : entry[i].apr > 0

\* the balance history records for a name at the end of month k, month 0
\* being the call's entry
RecordedBalance(k, n) ==
    IF k = 0 THEN entry[LastMatch(entry, n)].balance ELSE history[k].balances[n]

\* C8 as claimed: with every payment 0 and every APR positive, every balance
\* strictly increases in every simulated month and the run ends at the cap
\* with paid_off=false, never with paid_off=true.
C8_ZeroPaymentsNeverPaidOff ==
    ZeroPayments =>
        /\ pc = "returned" =>
            /\ ~result.paid_off
            /\ result.months = args.max_months + 1
        /\ \A k \in DOMAIN history : \A n \in Names(entry) :
            RecordedBalance(k, n) > RecordedBalance(k - 1, n)

\* C8, amended: with every payment 0 and every APR positive, a run whose
\* starting total is above epsilon ends at the cap with paid_off=false and
\* months = max_months + 1; no balance ever decreases, and a balance above
\* epsilon strictly increases in every month in which its interest does not
\* round to nothing. A run whose starting total is at or below epsilon
\* returns paid_off=true with months = 0.
C8_ZeroPaymentsAccrueToCap ==
    ZeroPayments =>
        /\ pc # "raised"
        /\ pc = "returned" =>
            IF total_balance(entry) > args.epsilon
            THEN ~result.paid_off /\ result.months = args.max_months + 1
            ELSE result.paid_off /\ result.months = 0
        /\ \A k \in DOMAIN history : \A n \in Names(entry) :
            LET prev == RecordedBalance(k - 1, n)
                apr == entry[LastMatch(entry, n)].apr
            IN /\ RecordedBalance(k, n) >= prev
               /\ (prev > args.epsilon /\ Interest(prev, apr) > 0)
                    => RecordedBalance(k, n) > prev
               /\ RecordedBalance(k, n) = prev + (IF prev > args.epsilon
                                                  THEN Interest(prev, apr) ELSE 0)

\* two months of pure accrual on a positive balance, ended by the cap
C8_Witness ==
    /\ ZeroPayments
    /\ pc = "returned"
    /\ ~result.paid_off
    /\ Len(history) >= 2
    /\ \E n \in Names(entry) :
        /\ RecordedBalance(1, n) > RecordedBalance(0, n)
        /\ RecordedBalance(2, n) > RecordedBalance(1, n)

\* the total at the end of month k, month 0 being the call's entry
EndTotal(k) == IF k = 0 THEN total_balance(entry) ELSE history[k].total_balance

BudgetRun == op = "budget" /\ args.monthly_budget > 0 /\ ValidStrategy

\* C9 as claimed: for every valid strategy and positive budget the total at
\* the end of each month is not greater than the total at the end of the
\* month before (the starting total, for month 1).
C9_TotalNeverRises ==
    BudgetRun => \A k \in DOMAIN history : EndTotal(k) <= EndTotal(k - 1)

\* what a month's allocation may leave unpaid of the budget: the ordered walk
\* stops once remaining <= epsilon; the proportional shares are each rounded
\* down to a whole unit
Unspent ==
    IF args.strategy = "proportional" THEN Max(0, Len(entry) - 1) ELSE args.epsilon

\* C9, amended: the total rises only through accrual. Allocation never
\* raises it: the total at the end of a month is at most the previous total
\* plus the month's interest, which is the total right after accrual. It is
\* not greater than the previous month's total in every month whose interest
\* is covered by the budget (interest <= monthly_budget less what allocation
\* may leave unspent: epsilon for the ordered walk, the rounding of the shares
\* for proportional); with a budget below the interest the total grows.
C9_TotalRisesOnlyByUncoveredInterest ==
    BudgetRun =>
        /\ pc = "alloc" => total_balance(work) = EndTotal(months - 1) + month_interest
        /\ \A k \in DOMAIN history :
            /\ EndTotal(k) <= EndTotal(k - 1) + history[k].interest
            /\ history[k].interest <= args.monthly_budget - Unspent
                    => EndTotal(k) <= EndTotal(k - 1)
            /\ (history[k].interest > args.monthly_budget /\ EndTotal(k) > args.epsilon)
                    => EndTotal(k) > EndTotal(k - 1)

\* a second month with interest in which two cards were paid and the total fell
C9_Witness ==
    /\ BudgetRun
    /\ Len(history) >= 2
    /\ Len(entry) = 2
    /\ history[2].interest > 0
    /\ EndTotal(2) < EndTotal(1)
    /\ EndTotal(1) < EndTotal(0)
    /\ \A i \in DOMAIN entry : entry[i].balance > 0 /\ work[i].balance < entry[i].balance

\* C10 as claimed: a budget smaller than the interest accruing on the total
\* balance in a month (the first) makes the call return paid_off=false with
\* months = max_months + 1, for every strategy and every cap.
C10_LowBudgetHitsCap ==
    (BudgetRun /\ args.monthly_budget < MonthInterest(entry, args.epsilon)) =>
        /\ pc # "raised"
        /\ pc = "returned" =>
            /\ ~result.paid_off
            /\ result.months = args.max_months + 1

\* C10, amended: when the budget is smaller than the interest of every month
\* simulated, the first included, the call returns paid_off=false with
\* months = max_months + 1; this is so whenever the budget is smaller than
\* the first month's interest and the list holds a single card.
C10_BudgetBelowEveryMonthsInterestHitsCap ==
    (BudgetRun /\ args.monthly_budget < MonthInterest(entry, args.epsilon)) =>
        /\ pc # "raised"
        /\ months <= args.max_months + 1
        /\ (pc = "returned"
                /\ \A k \in DOMAIN history : args.monthly_budget < history[k].interest) =>
            /\ ~result.paid_off
            /\ result.months = args.max_months + 1
        /\ Len(entry) = 1 =>
            /\ \A k \in DOMAIN history : args.monthly_budget < history[k].interest
            /\ pc = "loop" => args.monthly_budget < MonthInterest(work, args.epsilon)

\* a run of three months, each with more interest than budget, ended by the cap
C10_Witness ==
    /\ BudgetRun
    /\ pc = "returned"
    /\ ~result.paid_off
    /\ Len(history) >= 3
    /\ \A k \in DOMAIN history : args.monthly_budget < history[k].interest
    /\ Len(entry) = 2

\* ---------------------------------------------------------------------------
\* The payments of one month of a budget run, read off the step that makes them
\* ---------------------------------------------------------------------------

\* what card i was paid in the step: its balance after accrual less its balance after
Paid(i) == work[i].balance - work'[i].balance

SumPaid == SumSeq([i \in DOMAIN work |-> Paid(i)])

\* the order the strategy's description gives: avalanche by descending APR, ties by
\* ascending balance; snowball by ascending balance, ties by descending APR
Ahead(cs, strategy, i, j) ==
    IF strategy = "avalanche"
    THEN cs[i].apr > cs[j].apr \/ (cs[i].apr = cs[j].apr /\ cs[i].balance < cs[j].balance)
    ELSE cs[i].balance < cs[j].balance \/ (cs[i].balance = cs[j].balance /\ cs[i].apr > cs[j].apr)

\* cards tied on both keys are taken in list order
Before(cs, strategy, i, j) ==
    \/ Ahead(cs, strategy, i, j)
    \/ ~Ahead(cs, strategy, j, i) /\ i < j

\* what the cards before j in the order were paid in the step
PaidBefore(j) ==
    SumSeq([i \in DOMAIN work |->
        IF i # j /\ work[i].balance > args.epsilon /\ Before(work, args.strategy, i, j)
        THEN Paid(i) ELSE 0])

\* C11: in every month of an avalanche or snowball run an active account is paid
\* only if every active account ahead of it in the strategy's order (avalanche:
\* descending APR, ties by ascending post-accrual balance; snowball: ascending
\* post-accrual balance, ties by descending APR) was brought to zero in the same
\* month, and each paid account receives min(its balance, the budget still
\* remaining); accounts that are not active are paid nothing.
C11_PaymentsFollowOrder ==
    [][PayOrdered =>
        \A j \in DOMAIN work :
            /\ Paid(j) >= 0
            /\ work[j].balance <= args.epsilon => Paid(j) = 0
            /\ Paid(j) > 0 =>
                /\ \A i \in DOMAIN work :
                    (i # j /\ work[i].balance > args.epsilon
                        /\ Before(work, args.strategy, i, j)) => work'[i].balance = 0
                /\ Paid(j) = Min(work[j].balance, args.monthly_budget - PaidBefore(j))]_vars

\* the first month of an avalanche run over two cards of one APR: the card listed
\* second has the lower balance after accrual and is cleared, the card listed
\* first gets what is left of the budget and keeps a balance
C11_Witness ==
    /\ BudgetRun
    /\ args.strategy = "avalanche"
    /\ pc = "loop"
    /\ months = 1
    /\ Len(entry) = 2
    /\ LET pre == Accrued(entry, args.epsilon) IN
        /\ pre[1].apr = pre[2].apr
        /\ pre[2].balance < pre[1].balance
        /\ pre[2].balance > args.epsilon
        /\ work[2].balance = 0
        /\ work[1].balance < pre[1].balance
        /\ work[1].balance > 0

\* C12 as claimed: in every month of an avalanche or snowball run the payments
\* of the month sum to min(monthly_budget, total balance of all accounts after
\* the month's accrual) within epsilon, so budget stays unspent only when no
\* account has a balance left; no month pays more than monthly_budget (nothing
\* is carried over from the month before).
C12_BudgetNeverWasted ==
    [][PayOrdered =>
        LET due == Min(args.monthly_budget, total_balance(work)) IN
        /\ SumPaid <= args.monthly_budget
        /\ SumPaid <= due
        /\ due - SumPaid <= args.epsilon]_vars

\* the total of the active cards, as the strategy's description states it
DueTotal ==
    SumSeq([i \in DOMAIN work |->
        IF work[i].balance > args.epsilon THEN work[i].balance ELSE 0])

\* the proportional payment of card i as described: min(its balance,
\* monthly_budget * its balance / total active balance), in whole units
DueShare(i) ==
    Min(work[i].balance, (args.monthly_budget * work[i].balance) \div DueTotal)

\* the cards at or below epsilon are left as they are by the step
DustUntouched == \A i \in DOMAIN work : work[i].balance <= args.epsilon => work'[i] = work[i]

\* what the rounding of the shares can take off their sum: each share is
\* rounded on its own, a whole unit here, the last bits of a float in the source
ShareRounding == Max(0, Len(Active(work, args.epsilon)) - 1)

st_Accrued(cs, epsilon) ==
    [i \in DOMAIN cs |->
        IF cs[i].balance > epsilon
        THEN [cs[i] EXCEPT !.balance = cs[i].balance + Interest(cs[i].balance, cs[i].apr)]
        ELSE cs[i]]

\* total_interest_paid after the accrual loop, each card's interest added to it
RECURSIVE st_InterestFrom(_, _, _, _)
st_InterestFrom(cs, epsilon, i, total_interest_paid) ==
    IF i > Len(cs) THEN total_interest_paid
    ELSE st_InterestFrom(cs, epsilon, i + 1,
            IF cs[i].balance > epsilon
            THEN total_interest_paid + Interest(cs[i].balance, cs[i].apr)
            ELSE total_interest_paid)

\* active: the indices of the cards above epsilon, in list order
RECURSIVE st_ActiveFrom(_, _, _)
st_ActiveFrom(cs, epsilon, i) ==
    IF i > Len(cs) THEN <<>>
    ELSE (IF cs[i].balance > epsilon THEN <<i>> ELSE <<>>) \o st_ActiveFrom(cs, epsilon, i + 1)

\* the sort keys: avalanche (-apr, balance), snowball (balance, -apr)
st_KeyLess(cs, strategy, i, j) ==
    IF strategy = "avalanche"
    THEN \/ -cs[i].apr < -cs[j].apr
         \/ cs[i].apr = cs[j].apr /\ cs[i].balance < cs[j].balance
    ELSE \/ cs[i].balance < cs[j].balance
         \/ cs[i].balance = cs[j].balance /\ -cs[i].apr < -cs[j].apr

\* active.sort: stable, an element goes after every element not greater than it
RECURSIVE st_InsertSorted(_, _, _, _)
st_InsertSorted(cs, strategy, sorted, i) ==
    IF sorted = <<>> THEN <<i>>
    ELSE IF st_KeyLess(cs, strategy, i, Head(sorted))
         THEN <<i>> \o sorted
         ELSE <<Head(sorted)>> \o st_InsertSorted(cs, strategy, Tail(sorted), i)

RECURSIVE st_SortFrom(_, _, _, _)
st_SortFrom(cs, strategy, order, sorted) ==
    IF order = <<>> THEN sorted
    ELSE st_SortFrom(cs, strategy, Tail(order),
                     st_InsertSorted(cs, strategy, sorted, Head(order)))

\* the walk of the avalanche and snowball branches: one pass, no second one
RECURSIVE st_Walk(_, _, _, _)
st_Walk(cs, order, remaining, epsilon) ==
    IF order = <<>> \/ remaining <= epsilon THEN cs
    ELSE LET c == Head(order)
             pay == Min(cs[c].balance, remaining)
         IN st_Walk([cs EXCEPT ![c].balance = cs[c].balance - pay],
                    Tail(order), remaining - pay, epsilon)

st_TotalBal(cs, epsilon) ==
    SumSeq([i \in DOMAIN cs |-> IF cs[i].balance > epsilon THEN cs[i].balance ELSE 0])

\* the proportional branch past its break
st_Proportional(cs, remaining, epsilon) ==
    LET total_bal == st_TotalBal(cs, epsilon) IN
    [i \in DOMAIN cs |->
        IF cs[i].balance > epsilon
        THEN [cs[i] EXCEPT !.balance =
                cs[i].balance - Min(cs[i].balance, (remaining * cs[i].balance) \div total_bal)]
        ELSE cs[i]]

st_Raised == [raised |-> TRUE, paid_off |-> FALSE, months |-> 0, total_interest |-> 0]

st_Returned(paid, m, interest) ==
    [raised |-> FALSE, paid_off |-> paid, months |-> m, total_interest |-> interest]

\* the while loop, from the state at the top of an iteration to the return
RECURSIVE st_Loop(_, _, _, _, _, _, _)
st_Loop(cs, months_, total_interest_paid, monthly_budget, strategy, max_months, epsilon) ==
    IF ~(total_balance(cs) > epsilon)
    THEN st_Returned(TRUE, months_, total_interest_paid)
    ELSE IF months_ + 1 > max_months
    THEN st_Returned(FALSE, months_ + 1, total_interest_paid)
    ELSE LET accrued == st_Accrued(cs, epsilon)
             interest == st_InterestFrom(cs, epsilon, 1, total_interest_paid)
             active == st_ActiveFrom(accrued, epsilon, 1)
         IN IF strategy \in {"avalanche", "snowball"}
            THEN st_Loop(st_Walk(accrued, st_SortFrom(accrued, strategy, active, <<>>),
                                 monthly_budget, epsilon),
                         months_ + 1, interest, monthly_budget, strategy, max_months, epsilon)
            ELSE IF strategy = "proportional"
            THEN IF st_TotalBal(accrued, epsilon) <= epsilon
                 THEN st_Returned(TRUE, months_ + 1, interest)
                 ELSE st_Loop(st_Proportional(accrued, monthly_budget, epsilon),
                              months_ + 1, interest, monthly_budget, strategy,
                              max_months, epsilon)
            ELSE st_Raised

st_simulate_payoff_total_budget(cs, monthly_budget, strategy, max_months, epsilon) ==
    IF monthly_budget <= 0 THEN st_Raised
    ELSE st_Loop(cs, 0, 0, monthly_budget, strategy, max_months, epsilon)

\* ---------------------------------------------------------------------------
\* total_interest_paid as a float: every += rounds its sum to the mantissa
\* ---------------------------------------------------------------------------

\* the bits of the mantissa (53 in a Python float)
MantissaBits == 3

\* the spacing of the floats around x >= 0
RECURSIVE Ulp(_, _)
Ulp(x, u) == IF x < u * 2^MantissaBits THEN u ELSE Ulp(x, 2 * u)

\* x rounded to the nearest float, ties to the even mantissa
RoundFloat(x) ==
    LET u == Ulp(x, 1)
        q == x \div u
        r == x % u
    IN IF 2 * r < u \/ (2 * r = u /\ q % 2 = 0) THEN q * u ELSE (q + 1) * u

FloatAdd(x, y) == RoundFloat(x + y)

IsFloat(x) == RoundFloat(x) = x

\* acc += intr over the cards above epsilon, in list order
RECURSIVE FloatInterestFrom(_, _, _, _)
FloatInterestFrom(cs, epsilon, i, acc) ==
    IF i > Len(cs) THEN acc
    ELSE FloatInterestFrom(cs, epsilon, i + 1,
            IF cs[i].balance > epsilon
            THEN FloatAdd(acc, Interest(cs[i].balance, cs[i].apr))
            ELSE acc)

\* the console module: month_interest summed from 0.0, then added to the total
total_interest_paid(cs, epsilon, total) ==
    FloatAdd(total, FloatInterestFrom(cs, epsilon, 1, 0))

\* the Streamlit module: each card's interest added to the total
st_total_interest_paid(cs, epsilon, total) == FloatInterestFrom(cs, epsilon, 1, total)

\* ---------------------------------------------------------------------------
\* C14: the console and the Streamlit simulate_payoff_total_budget
\* ---------------------------------------------------------------------------

\* the call is over: both raised, or both returned the same paid_off, months
\* and total_interest, the interest taken in exact arithmetic
SameOutcome ==
    (op = "budget" /\ pc \in {"returned", "raised"}) =>
        LET st == st_simulate_payoff_total_budget(entry, args.monthly_budget, args.strategy,
                                                  args.max_months, args.epsilon)
        IN /\ st.raised <=> pc = "raised"
           /\ pc = "returned" =>
                /\ st.paid_off = result.paid_off
                /\ st.months = result.months
                /\ st.total_interest = result.total_interest

\* after the first pass of the console version its second pass pays nothing
SecondPassPaysNothing ==
    (op = "budget" /\ pc = "alloc" /\ args.strategy \in {"avalanche", "snowball"}) =>
        LET first == WalkPay(work, PayoffOrder(work, args.strategy, args.epsilon),
                             args.monthly_budget, args.epsilon)
        IN SecondPass(first, args.strategy, args.epsilon) = first

\* a month is about to accrue, and the running total and the interests are floats
MonthOfFloats ==
    /\ BudgetRun
    /\ pc = "loop"
    /\ total_balance(work) > args.epsilon
    /\ ~CapExceeded(months + 1, args.max_months)
    /\ IsFloat(total_interest)
    /\ \A i \in DOMAIN work : IsFloat(Interest(work[i].balance, work[i].apr))

\* the cards that gain interest in the month about to accrue
Accruing ==
    {i \in DOMAIN work : work[i].balance > args.epsilon
                            /\ Interest(work[i].balance, work[i].apr) > 0}

\* C14 as claimed: the two implementations are observationally equivalent: for
\* every account list, budget, strategy, cap and epsilon both raise or both
\* return the same paid_off, months and total_interest, the float total_interest
\* of every month included; the second pass of the console version never pays.
C14_SameResults ==
    /\ SameOutcome
    /\ SecondPassPaysNothing
    /\ MonthOfFloats =>
        total_interest_paid(work, args.epsilon, total_interest)
            = st_total_interest_paid(work, args.epsilon, total_interest)

\* C14, amended: both raise or both return the same paid_off and months, and the
\* same total_interest in exact arithmetic; the second pass of the console
\* version never pays. As floats the two totals agree after a month in which
\* at most one account gains interest or before which the total is 0; with two
\* accounts gaining interest the console version adds their rounded sum and the
\* Streamlit version adds them one by one, and the totals may differ by rounding.
C14_SameResultsUpToRounding ==
    /\ SameOutcome
    /\ SecondPassPaysNothing
    /\ (MonthOfFloats /\ (Cardinality(Accruing) <= 1 \/ total_interest = 0)) =>
        total_interest_paid(work, args.epsilon, total_interest)
            = st_total_interest_paid(work, args.epsilon, total_interest)

\* an avalanche or snowball run over two cards with interest that took a second
\* month, with interest again, and was paid off with budget to spare, so that
\* the console version entered its second pass
C14_Witness ==
    /\ BudgetRun
    /\ args.strategy \in {"avalanche", "snowball"}
    /\ pc = "returned"
    /\ result.paid_off
    /\ Len(entry) = 2
    /\ entry[1].name # entry[2].name
    /\ \A i \in DOMAIN entry : entry[i].apr > 0 /\ entry[i].balance > args.epsilon
    /\ Len(history) >= 2
    /\ history[2].interest > 0
    /\ history[Len(history) - 1].total_balance + history[Len(history)].interest
            < args.monthly_budget - args.epsilon

=============================================================================
